---- MODULE Spec2Model ----
(***************************************************************************)
(* The snapshot acquisition loop of src/src/main.rs: pacing, the joined    *)
(* pair of fetches, the merge and the write of one record per iteration.   *)
(*                                                                         *)
(* Time is counted in ticks of 50 ms.  `now` is the monotonic clock        *)
(* (Instant), `wall` the system clock (SystemTime / chrono Local), which   *)
(* advances with `now` and may besides be stepped forward.  The f64        *)
(* seconds of the source are whole ticks here.                             *)
(***************************************************************************)
EXTENDS Integers, Sequences, FiniteSets, TLC

\* ------------------------------------------------------------ constants
SYMBOL == "SUIUSDT"
OUTPUT_DIR == "./orderbook_snapshots"
\* 0.1 s, in ticks
UPDATE_INTERVAL == 2
\* 0.1 s, in ticks
MIN_INTERVAL_BETWEEN_SNAPSHOTS == 2
\* the resolution of %S and of as_secs(), in ticks
TicksPerSecond == 20
\* as_millis() of one tick
MillisPerTick == 50

\* ------------------------------------------------------------ bounds
\* the monotonic clock stops here
MaxTime == 5
\* forward steps of the system clock (each of one second)
MaxWallJumps == 1
\* the system clock's reading at process start, in ticks
WallStart == 17

\* ------------------------------------------------------------ data
\* What the depth endpoint may answer: bids and asks are sequences of
\* <<price, quantity>> pairs, in the exchange's order.
OrderBooks ==
    { [lastUpdateId |-> 100,
       bids |-> << <<"8.50", "120.0">>, <<"8.49", "7.0">> >>,
       asks |-> << <<"8.55", "80.0">> >>],
      [lastUpdateId |-> 101,
       bids |-> << <<"8.49", "7.0">>, <<"8.50", "120.0">> >>,
       asks |-> << <<"8.55", "80.0">> >>] }

\* What the ticker endpoint answers in its price field; the sample's
\* timestamp tells one iteration's sample from another's.
Prices == {"8.52"}

\* The ways a leg fails: send() fails, the status is not 2xx, the body
\* does not parse.
FetchErrors == {"transport", "status", "parse"}

NoBook == [lastUpdateId |-> 0, bids |-> <<>>, asks |-> <<>>]
NoPrice == [price |-> "", timestamp |-> 0]

\* Result<OrderBook, _> and Result<PriceData, _>, and the future not yet
\* completed.
PendingBook == [st |-> "pending", val |-> NoBook, err |-> ""]
PendingPrice == [st |-> "pending", val |-> NoPrice, err |-> ""]
OkBook(ob) == [st |-> "ok", val |-> ob, err |-> ""]
ErrBook(e) == [st |-> "err", val |-> NoBook, err |-> e]
OkPrice(p) == [st |-> "ok", val |-> p, err |-> ""]
ErrPrice(e) == [st |-> "err", val |-> NoPrice, err |-> e]

VARIABLES
    now,                \* Instant::now(), ticks
    wall,               \* SystemTime::now() / Local::now(), ticks
    jumps,              \* forward steps of the system clock so far
    pc,                 \* where main is
    iteration_start,    \* main's local
    last_snapshot_time, \* main's local
    issued_at,          \* the system clock when last_snapshot_time was assigned, wall ticks
    sleep_duration,     \* the sleep the iteration last asked for (lines 150, 182)
    wake_at,            \* the deadline of the sleep in progress
    inflight,           \* requests sent and not yet answered, per endpoint
    orderbook_result,   \* the depth leg's output
    price_result,       \* the price leg's output
    dir_exists,         \* OUTPUT_DIR exists
    files,              \* filename -> content, the files of OUTPUT_DIR
    save_now,           \* save_snapshot's `now` (line 98), wall ticks
    json_data,          \* save_snapshot's serialized record
    stdout,             \* lines printed since the iteration began
    stderr,             \* lines printed to stderr since the iteration began
    prev_failed,        \* the iteration before this one logged a failure
    last_persisted,     \* capture and request instants of the last record written
    captures            \* Local::now() of every record written so far

vars == <<now, wall, jumps, pc, iteration_start, last_snapshot_time, issued_at,
          sleep_duration, wake_at,
          inflight, orderbook_result, price_result, dir_exists, files,
          save_now, json_data, stdout, stderr, prev_failed, last_persisted,
          captures>>

clock == <<now, wall, jumps>>
timers == <<sleep_duration, wake_at>>
fsys == <<dir_exists, files>>
legs == <<inflight, orderbook_result, price_result>>
locals == <<save_now, json_data>>
out == <<stdout, stderr>>
history == <<last_persisted, captures>>

Endpoints == {"depth", "price"}

\* ------------------------------------------------------------ formats
\* now.format("%Y%m%d_%H%M%S") and now.format("%Y-%m-%d %H:%M:%S"): the
\* second the instant lies in.  as_secs() truncates likewise.
SecondOf(t) == t \div TicksPerSecond

\* as_millis()
MillisOf(t) == t * MillisPerTick

\* a name without the %S field
FilenameByMinute(symbol, t) ==
    <<OUTPUT_DIR, "orderbook", symbol, t \div (60 * TicksPerSecond)>>

Filename(symbol, t) == <<OUTPUT_DIR, "orderbook", symbol, SecondOf(t)>>

\* the two sides of the book exchanged
CombinedDataSwapped(ob, pd, current_time, datetime_str) ==
    [lastUpdateId |-> ob.lastUpdateId,
     bids |-> ob.asks,
     asks |-> ob.bids,
     current_price |-> [price |-> pd.price, timestamp |-> pd.timestamp],
     local_timestamp |-> current_time,
     local_datetime |-> datetime_str]

\* CombinedData, lines 109-119
CombinedData(ob, pd, current_time, datetime_str) ==
    [lastUpdateId |-> ob.lastUpdateId,
     bids |-> ob.bids,
     asks |-> ob.asks,
     current_price |-> [price |-> pd.price, timestamp |-> pd.timestamp],
     local_timestamp |-> current_time,
     local_datetime |-> datetime_str]

\* serde_json::to_string_pretty of a CombinedData: its fields in declared
\* order, each a <<key, value>> pair.
Serialize(cd) ==
    << <<"lastUpdateId", cd.lastUpdateId>>,
       <<"bids", cd.bids>>,
       <<"asks", cd.asks>>,
       <<"current_price", cd.current_price>>,
       <<"local_timestamp", cd.local_timestamp>>,
       <<"local_datetime", cd.local_datetime>> >>

\* the keys of a whole record, lines 35-42
RecordKeys ==
    <<"lastUpdateId", "bids", "asks", "current_price", "local_timestamp",
      "local_datetime">>

\* Nothing persisted yet.  capture: Local::now() of the last record written,
\* wall ticks; issued: last_snapshot_time of its iteration; the gaps: to the
\* record written before it, -1 when there is none.
NoPersist == [capture |-> -1, issued |-> -1, capture_gap |-> -1, issue_gap |-> -1]

Persisted(capture, issued) ==
    [capture |-> capture,
     issued |-> issued,
     capture_gap |-> IF last_persisted.capture < 0 THEN -1
                     ELSE capture - last_persisted.capture,
     issue_gap |-> IF last_persisted.capture < 0 THEN -1
                   ELSE issued - last_persisted.issued]

\* ------------------------------------------------------------ Init
\* last_snapshot_time initialised to an instant already MIN_INTERVAL old
InitStale ==
    /\ now = 0
    /\ wall = WallStart
    /\ jumps = 0
    /\ pc = "iter_start"
    /\ iteration_start = 0
    /\ last_snapshot_time = 0 - MIN_INTERVAL_BETWEEN_SNAPSHOTS
    /\ issued_at = wall
    /\ sleep_duration = 0
    /\ wake_at = 0
    /\ inflight = [e \in Endpoints |-> 0]
    /\ orderbook_result = PendingBook
    /\ price_result = PendingPrice
    /\ dir_exists \in BOOLEAN
    /\ files = <<>>
    /\ save_now = 0
    /\ json_data = <<>>
    /\ stdout = <<>>
    /\ stderr = <<>>
    /\ prev_failed = FALSE
    /\ last_persisted = NoPersist
    /\ captures = {}

\* line 142 and the state before the loop
Init ==
    /\ now = 0
    /\ wall = WallStart
    /\ jumps = 0
    /\ pc = "iter_start"
    /\ iteration_start = 0
    /\ last_snapshot_time = 0
    /\ issued_at = wall
    /\ sleep_duration = 0
    /\ wake_at = 0
    /\ inflight = [e \in Endpoints |-> 0]
    /\ orderbook_result = PendingBook
    /\ price_result = PendingPrice
    /\ dir_exists \in BOOLEAN
    /\ files = <<>>
    /\ save_now = 0
    /\ json_data = <<>>
    /\ stdout = <<>>
    /\ stderr = <<>>
    /\ prev_failed = FALSE
    /\ last_persisted = NoPersist
    /\ captures = {}

\* ------------------------------------------------------------ clocks
Tick ==
    /\ now < MaxTime
    /\ now' = now + 1
    /\ wall' = wall + 1
    /\ UNCHANGED <<jumps, pc, iteration_start, last_snapshot_time, issued_at, timers,
                   legs, fsys, locals, out, prev_failed, history>>

\* The system clock is set forward by one second.
WallJump ==
    /\ jumps < MaxWallJumps
    /\ jumps' = jumps + 1
    /\ wall' = wall + TicksPerSecond
    /\ UNCHANGED <<now, pc, iteration_start, last_snapshot_time, issued_at, timers,
                   legs, fsys, locals, out, prev_failed, history>>

\* ------------------------------------------------------------ main loop
\* line 145; the iteration's locals and the lines of the one before are gone
IterStart ==
    /\ pc = "iter_start"
    /\ iteration_start' = now
    /\ sleep_duration' = 0
    /\ stdout' = <<>>
    /\ stderr' = <<>>
    /\ prev_failed' = (stderr # <<>>)
    /\ pc' = "throttle_check"
    /\ UNCHANGED <<clock, last_snapshot_time, issued_at, wake_at, legs, fsys, locals,
                   history>>

\* the comparison of line 149, one tick short
ThrottleSleepNeededShort(elapsed) == elapsed < MIN_INTERVAL_BETWEEN_SNAPSHOTS - 1

\* lines 148-153
ThrottleSleepNeeded(elapsed) == elapsed < MIN_INTERVAL_BETWEEN_SNAPSHOTS

ThrottleCheck ==
    /\ pc = "throttle_check"
    /\ LET time_since_last_snapshot == now - last_snapshot_time
       IN IF ThrottleSleepNeeded(time_since_last_snapshot)
          THEN /\ sleep_duration' = MIN_INTERVAL_BETWEEN_SNAPSHOTS
                                      - time_since_last_snapshot
               /\ wake_at' = now + sleep_duration'
               /\ pc' = "throttle_sleep"
          ELSE /\ pc' = "stamp"
               /\ UNCHANGED timers
    /\ UNCHANGED <<clock, iteration_start, last_snapshot_time, issued_at, legs, fsys,
                   locals, out, prev_failed, history>>

\* a sleep that returns one tick before its deadline
SleepOverEarly == now >= wake_at - 1

\* sleep(...).await returns: not before its deadline
SleepOver == now >= wake_at

ThrottleWake ==
    /\ pc = "throttle_sleep"
    /\ SleepOver
    /\ pc' = "stamp"
    /\ wake_at' = 0
    /\ UNCHANGED <<clock, iteration_start, last_snapshot_time, issued_at, sleep_duration, legs,
                   fsys, locals, out, prev_failed, history>>

\* lines 160-163, the first poll of join!: both futures are polled, each
\* sends its request
IssueRequests == [e \in Endpoints |-> inflight[e] + 1]

\* the requests issued with last_snapshot_time left as it was
StampKeepsTime ==
    /\ pc = "stamp"
    /\ inflight' = IssueRequests
    /\ pc' = "join"
    /\ UNCHANGED <<clock, iteration_start, last_snapshot_time, issued_at, timers,
                   orderbook_result, price_result, fsys, locals, out,
                   prev_failed, history>>

\* lines 156-163
Stamp ==
    /\ pc = "stamp"
    /\ last_snapshot_time' = now
    /\ issued_at' = wall
    /\ inflight' = IssueRequests
    /\ pc' = "join"
    /\ UNCHANGED <<clock, iteration_start, timers, orderbook_result,
                   price_result, fsys, locals, out, prev_failed, history>>

\* get_orderbook_snapshot, lines 77-84
DepthOutcomes ==
    {OkBook(ob) : ob \in OrderBooks} \cup {ErrBook(e) : e \in FetchErrors}

DepthResponse ==
    /\ pc = "join"
    /\ orderbook_result.st = "pending"
    /\ inflight["depth"] > 0
    /\ \E r \in DepthOutcomes : orderbook_result' = r
    /\ inflight' = [inflight EXCEPT !["depth"] = @ - 1]
    /\ UNCHANGED <<clock, pc, iteration_start, last_snapshot_time, issued_at, timers,
                   price_result, fsys, locals, out, prev_failed, history>>

\* the clock read with as_secs() in place of as_millis()
PriceTimestampSeconds == SecondOf(wall)

\* get_current_price, lines 50-64: the timestamp is the system clock read
\* once the body has parsed
PriceTimestamp == MillisOf(wall)

PriceOutcomes ==
    {OkPrice([price |-> p, timestamp |-> PriceTimestamp]) : p \in Prices}
        \cup {ErrPrice(e) : e \in FetchErrors}

PriceResponse ==
    /\ pc = "join"
    /\ price_result.st = "pending"
    /\ inflight["price"] > 0
    /\ \E r \in PriceOutcomes : price_result' = r
    /\ inflight' = [inflight EXCEPT !["price"] = @ - 1]
    /\ UNCHANGED <<clock, pc, iteration_start, last_snapshot_time, issued_at, timers,
                   orderbook_result, fsys, locals, out, prev_failed,
                   history>>

\* a join that returns at the first failure, as try_join! would
JoinReadyShortCircuit ==
    \/ orderbook_result.st # "pending" /\ price_result.st # "pending"
    \/ orderbook_result.st = "err"
    \/ price_result.st = "err"

\* a join that waits for the depth leg alone
JoinReadyFirst == orderbook_result.st # "pending"

\* a join bounded by a deadline, as under tokio::time::timeout
JoinReadyTimeout ==
    \/ orderbook_result.st # "pending" /\ price_result.st # "pending"
    \/ now - last_snapshot_time >= UPDATE_INTERVAL

\* a join that completes only once both legs have succeeded
JoinReadyBothOk == orderbook_result.st = "ok" /\ price_result.st = "ok"

\* join! returns when both futures have completed
JoinReady == orderbook_result.st # "pending" /\ price_result.st # "pending"

\* a first arm that looks at the order book alone
MatchArmBookOnly(ob, pr) ==
    IF ob.st = "ok" THEN "save" ELSE "orderbook_err"

\* the arms of the match, lines 165-177, in their order
MatchArm(ob, pr) ==
    IF ob.st = "ok" /\ pr.st = "ok" THEN "save"
    ELSE IF ob.st = "err" THEN "orderbook_err"
    ELSE "price_err"

\* a failure propagated out of main with `?`
AfterFailureExit == "exited"

\* where main goes after a failure is logged: on to line 180
AfterFailure == "pace"

\* line 177: the match is over, its values and save_snapshot's locals are dropped
EndMatch ==
    /\ orderbook_result' = PendingBook
    /\ price_result' = PendingPrice
    /\ save_now' = 0
    /\ json_data' = <<>>

Match ==
    /\ pc = "join"
    /\ JoinReady
    /\ LET arm == MatchArm(orderbook_result, price_result)
       IN CASE arm = "save" ->
                 /\ pc' = "save_enter"
                 /\ UNCHANGED <<stderr, orderbook_result, price_result, locals>>
            [] arm = "orderbook_err" ->
                 /\ stderr' = Append(stderr, <<"Failed to get orderbook snapshot",
                                               orderbook_result.err>>)
                 /\ pc' = AfterFailure
                 /\ EndMatch
            [] OTHER ->
                 /\ stderr' = Append(stderr, <<"Failed to get price data",
                                               price_result.err>>)
                 /\ pc' = AfterFailure
                 /\ EndMatch
    /\ UNCHANGED <<clock, iteration_start, last_snapshot_time, issued_at, timers,
                   inflight, fsys, stdout, prev_failed, history>>

\* ------------------------------------------------------------ save_snapshot
\* an Err from save_snapshot dropped without a line
SaveFailedSilent(cause) ==
    /\ UNCHANGED stderr
    /\ pc' = AfterFailure
    /\ EndMatch

\* save_snapshot returns Err(cause): line 172
SaveFailed(cause) ==
    /\ stderr' = Append(stderr, <<"Error saving snapshot", cause>>)
    /\ pc' = AfterFailure
    /\ EndMatch

\* lines 93-103: the directory, then Local::now() and the filename
SaveEnter ==
    /\ pc = "save_enter"
    /\ \/ /\ dir_exists' = TRUE
          /\ save_now' = wall
          /\ pc' = "save_build"
          /\ UNCHANGED <<stderr, orderbook_result, price_result, json_data>>
       \/ /\ ~dir_exists
          /\ SaveFailed("create_dir_all")
          /\ UNCHANGED dir_exists
    /\ UNCHANGED <<clock, iteration_start, last_snapshot_time, issued_at, timers,
                   inflight, files, stdout, prev_failed, history>>

\* lines 106-122.  duration_since(UNIX_EPOCH) fails only for a clock before
\* 1970 and to_string_pretty cannot fail for a struct of integers, strings
\* and vectors of them: both succeed here.
SaveBuild ==
    /\ pc = "save_build"
    /\ LET current_time == SecondOf(wall)
           datetime_str == SecondOf(save_now)
       IN json_data' = Serialize(CombinedData(orderbook_result.val,
                                              price_result.val,
                                              current_time, datetime_str))
    /\ pc' = "write_open"
    /\ UNCHANGED <<clock, iteration_start, last_snapshot_time, issued_at, timers, legs,
                   fsys, save_now, out, prev_failed, history>>

\* fs::write, line 123: the file is created or truncated ...
WithFile(fs, name, content) ==
    [f \in DOMAIN fs \cup {name} |-> IF f = name THEN content ELSE fs[f]]

WriteOpen ==
    /\ pc = "write_open"
    /\ \/ /\ dir_exists
          /\ files' = WithFile(files, Filename(SYMBOL, save_now), <<>>)
          /\ pc' = "write_all"
          /\ UNCHANGED <<stderr, orderbook_result, price_result, locals>>
       \/ /\ SaveFailed("open")
          /\ UNCHANGED files
    /\ UNCHANGED <<clock, iteration_start, last_snapshot_time, issued_at, timers,
                   inflight, dir_exists, stdout, prev_failed, history>>

\* ... and the bytes are written: all of them, or some and then an error.
\* On Ok(filename) main prints the success line, lines 168-171.
WriteAll ==
    /\ pc = "write_all"
    /\ LET filename == Filename(SYMBOL, save_now)
       IN \/ /\ files' = WithFile(files, filename, json_data)
             /\ stdout' = Append(stdout, <<"Snapshot saved", filename,
                                           now - iteration_start>>)
             /\ last_persisted' = Persisted(save_now, last_snapshot_time)
             /\ captures' = captures \cup {save_now}
             /\ pc' = "pace"
             /\ EndMatch
             /\ UNCHANGED stderr
          \/ \E k \in 0 .. (Len(json_data) - 1) :
                /\ files' = WithFile(files, filename, SubSeq(json_data, 1, k))
                /\ SaveFailed("write")
                /\ UNCHANGED <<stdout, history>>
    /\ UNCHANGED <<clock, iteration_start, last_snapshot_time, issued_at, timers,
                   inflight, dir_exists, prev_failed>>

\* ------------------------------------------------------------ pacing
\* the comparison of line 181, one tick short
PaceSleepNeededShort(elapsed) == elapsed < UPDATE_INTERVAL - 1

\* lines 180-186
PaceSleepNeeded(elapsed) == elapsed < UPDATE_INTERVAL

PaceCheck ==
    /\ pc = "pace"
    /\ LET elapsed == now - iteration_start
       IN IF PaceSleepNeeded(elapsed)
          THEN /\ sleep_duration' = UPDATE_INTERVAL - elapsed
               /\ wake_at' = now + sleep_duration'
               /\ pc' = "pace_sleep"
               /\ UNCHANGED stdout
          ELSE /\ stdout' = Append(stdout, <<"Processing took longer than interval",
                                             elapsed>>)
               /\ pc' = "iter_start"
               /\ UNCHANGED timers
    /\ UNCHANGED <<clock, iteration_start, last_snapshot_time, issued_at, legs, fsys,
                   locals, stderr, prev_failed, history>>

PaceWake ==
    /\ pc = "pace_sleep"
    /\ SleepOver
    /\ pc' = "iter_start"
    /\ wake_at' = 0
    /\ UNCHANGED <<clock, iteration_start, last_snapshot_time, issued_at, sleep_duration, legs,
                   fsys, locals, out, prev_failed, history>>

Next ==
    \/ Tick
    \/ WallJump
    \/ IterStart
    \/ ThrottleCheck
    \/ ThrottleWake
    \/ Stamp
    \/ DepthResponse
    \/ PriceResponse
    \/ Match
    \/ SaveEnter
    \/ SaveBuild
    \/ WriteOpen
    \/ WriteAll
    \/ PaceCheck
    \/ PaceWake

Spec == Init /\ [][Next]_vars

\* The steps of main itself: the runtime keeps polling the one task there is.
MainStep ==
    \/ IterStart
    \/ ThrottleCheck
    \/ ThrottleWake
    \/ Stamp
    \/ Match
    \/ SaveEnter
    \/ SaveBuild
    \/ WriteOpen
    \/ WriteAll
    \/ PaceCheck
    \/ PaceWake

\* Fair scheduling: main is run whenever it can take a step, every request
\* sent is eventually answered, and time passes (up to the horizon MaxTime).
LiveSpec ==
    /\ Spec
    /\ WF_vars(MainStep)
    /\ WF_vars(DepthResponse)
    /\ WF_vars(PriceResponse)
    /\ WF_vars(Tick)

\* ------------------------------------------------------------ claims
SavePcs == {"save_enter", "save_build", "write_open", "write_all"}

FetchFailureLines == {"Failed to get orderbook snapshot", "Failed to get price data"}

Complete(content) ==
    /\ Len(content) = Len(RecordKeys)
    /\ \A i \in 1 .. Len(RecordKeys) : content[i][1] = RecordKeys[i]

\* C1: when a fetch leg has failed, save_snapshot is not entered and neither
\* the output directory nor any file changes; save_snapshot is entered only
\* with both results Ok, and the filesystem changes only inside it.
C1_NoSaveOnFetchFailure ==
    [][ /\ (orderbook_result.st = "err" \/ price_result.st = "err")
            => (pc' \notin SavePcs /\ dir_exists' = dir_exists /\ files' = files)
        /\ (pc' \in SavePcs)
            => (orderbook_result.st = "ok" /\ price_result.st = "ok")
        /\ (dir_exists' # dir_exists \/ files' # files) => pc \in SavePcs
      ]_vars

\* an iteration whose fetch failed is at its pacing step, and there is still
\* no output directory
C1_Witness ==
    /\ pc = "pace"
    /\ Len(stderr) = 1
    /\ stderr[1][1] \in FetchFailureLines
    /\ ~dir_exists
    /\ files = <<>>

\* C2 (as claimed): once an iteration's persistence step is over, every file
\* of the output directory holds one whole serialized record.
C2_NoPartialRecord ==
    pc \notin SavePcs => \A f \in DOMAIN files : Complete(files[f])

\* C3: last_snapshot_time is assigned the current instant, at least
\* MIN_INTERVAL_BETWEEN_SNAPSHOTS after its previous value, together with the
\* issuing of both requests; the wait before it is asked for exactly when the
\* elapsed time is below the minimum, lasts MIN_INTERVAL_BETWEEN_SNAPSHOTS -
\* elapsed, and does not end before its deadline.
C3_MinSpacing ==
    [][ /\ (last_snapshot_time' # last_snapshot_time)
            => /\ last_snapshot_time' = now
               /\ last_snapshot_time' - last_snapshot_time
                      >= MIN_INTERVAL_BETWEEN_SNAPSHOTS
               /\ \A e \in Endpoints : inflight'[e] = inflight[e] + 1
        /\ (pc = "throttle_check" /\ pc' # pc)
            => LET elapsed == now - last_snapshot_time
               IN IF elapsed < MIN_INTERVAL_BETWEEN_SNAPSHOTS
                  THEN /\ pc' = "throttle_sleep"
                       /\ sleep_duration' = MIN_INTERVAL_BETWEEN_SNAPSHOTS - elapsed
                       /\ wake_at' = now + sleep_duration'
                  ELSE /\ pc' = "stamp"
                       /\ sleep_duration' = 0
        /\ (pc = "throttle_sleep" /\ pc' # pc) => (pc' = "stamp" /\ now >= wake_at)
      ]_vars

\* a later iteration has waited a deficit of one tick and issued its requests
\* exactly the minimum after the previous ones
C3_Witness ==
    /\ pc = "join"
    /\ sleep_duration = 1
    /\ last_snapshot_time = 2 * MIN_INTERVAL_BETWEEN_SNAPSHOTS
    /\ iteration_start = last_snapshot_time - 1

\* C4 (as claimed): the capture timestamps of two consecutive persisted
\* snapshots are at least MIN_INTERVAL_BETWEEN_SNAPSHOTS apart.
C4_CaptureSpacing ==
    last_persisted.issue_gap >= 0
        => last_persisted.capture_gap >= MIN_INTERVAL_BETWEEN_SNAPSHOTS

\* C4 (amended): for two consecutive persisted snapshots, the instants at
\* which their iterations issued their requests are at least
\* MIN_INTERVAL_BETWEEN_SNAPSHOTS apart, and the second capture timestamp is
\* not earlier than the first.
C4_RequestSpacing ==
    last_persisted.issue_gap >= 0
        => /\ last_persisted.issue_gap >= MIN_INTERVAL_BETWEEN_SNAPSHOTS
           /\ last_persisted.capture_gap >= 0

\* two consecutive records captured less than the minimum apart, the first
\* after a slow fetch
C4_Witness ==
    /\ last_persisted.issue_gap >= MIN_INTERVAL_BETWEEN_SNAPSHOTS
    /\ last_persisted.capture_gap >= 0
    /\ last_persisted.capture_gap < MIN_INTERVAL_BETWEEN_SNAPSHOTS

\* C5: both requests are issued in every iteration; main leaves the join only
\* when both legs have completed and nothing is in flight; a leg that
\* completes, with success or failure, leaves the other leg's result and its
\* request untouched, and a leg still pending keeps its request in flight.
C5_JoinWaitsForBoth ==
    [][ /\ (pc = "stamp" /\ pc' # pc)
            => (pc' = "join" /\ \A e \in Endpoints : inflight'[e] = 1)
        /\ (pc = "join" /\ pc' # "join")
            => /\ orderbook_result.st # "pending"
               /\ price_result.st # "pending"
               /\ \A e \in Endpoints : inflight[e] = 0
        /\ (orderbook_result.st = "pending" /\ orderbook_result' # orderbook_result)
            => /\ price_result' = price_result
               /\ inflight'["price"] = inflight["price"]
               /\ pc' = "join"
        /\ (price_result.st = "pending" /\ price_result' # price_result)
            => /\ orderbook_result' = orderbook_result
               /\ inflight'["depth"] = inflight["depth"]
               /\ pc' = "join"
        /\ (pc = "join" /\ orderbook_result.st = "pending") => inflight["depth"] = 1
        /\ (pc = "join" /\ price_result.st = "pending") => inflight["price"] = 1
      ]_vars

\* the depth leg has failed while the price request is still in flight
C5_Witness ==
    /\ pc = "join"
    /\ orderbook_result.st = "err"
    /\ price_result.st = "pending"
    /\ inflight["price"] = 1
    /\ inflight["depth"] = 0

Range(seq) == {seq[i] : i \in DOMAIN seq}

\* C6 (as claimed): when main leaves the join, every leg that failed has its
\* failure, with its cause, on stderr.
C6_EveryFailedLegLogged ==
    [][ (pc = "join" /\ pc' # "join")
            => /\ orderbook_result.st = "err"
                    => <<"Failed to get orderbook snapshot", orderbook_result.err>>
                           \in Range(stderr')
               /\ price_result.st = "err"
                    => <<"Failed to get price data", price_result.err>>
                           \in Range(stderr')
      ]_vars

LoopPcs ==
    {"iter_start", "throttle_check", "throttle_sleep", "stamp", "join",
     "save_enter", "save_build", "write_open", "write_all", "pace", "pace_sleep"}

LoopEdges ==
    { <<"iter_start", "throttle_check">>,
      <<"throttle_check", "throttle_sleep">>, <<"throttle_check", "stamp">>,
      <<"throttle_sleep", "stamp">>, <<"stamp", "join">>,
      <<"join", "save_enter">>, <<"join", "pace">>,
      <<"save_enter", "save_build">>, <<"save_enter", "pace">>,
      <<"save_build", "write_open">>,
      <<"write_open", "write_all">>, <<"write_open", "pace">>,
      <<"write_all", "pace">>,
      <<"pace", "pace_sleep">>, <<"pace", "iter_start">>,
      <<"pace_sleep", "iter_start">> }

\* C7: main never leaves the loop; a step that logs a failure logs one line
\* and goes to the pacing step; from then until the next iteration begins
\* nothing is sent and nothing is written; and the next iteration issues both
\* requests again.
C7_FailuresAreLocal ==
    [][ /\ pc' \in LoopPcs
        /\ pc' # pc => <<pc, pc'>> \in LoopEdges
        /\ Len(stderr') > Len(stderr) => (pc' = "pace" /\ Len(stderr') = 1)
        /\ stderr # <<>>
            => /\ dir_exists' = dir_exists /\ files' = files
               /\ inflight' = inflight
               /\ pc \in {"pace", "pace_sleep", "iter_start"}
        /\ (pc = "stamp" /\ pc' # pc)
            => (pc' = "join" /\ \A e \in Endpoints : inflight'[e] = inflight[e] + 1)
      ]_vars

\* the iteration after a failed one has issued both requests
C7_Witness ==
    /\ prev_failed
    /\ pc = "join"
    /\ \A e \in Endpoints : inflight[e] = 1

\* C8: at most one depth and one price request are in flight, and only while
\* main is at the join, where no sleep and no save_snapshot is in progress;
\* during save_snapshot and during the sleeps nothing is in flight.
C8_SequentialIterations ==
    /\ \A e \in Endpoints : inflight[e] <= 1
    /\ (\E e \in Endpoints : inflight[e] > 0)
        => (pc = "join" /\ wake_at = 0 /\ save_now = 0 /\ json_data = <<>>)
    /\ pc \in SavePcs => wake_at = 0
    /\ pc \notin SavePcs => (save_now = 0 /\ json_data = <<>>)
    /\ pc \notin {"throttle_sleep", "pace_sleep"} => wake_at = 0

\* a later iteration has its two requests in flight after an earlier one
\* persisted and paced
C8_Witness ==
    /\ pc = "join"
    /\ \A e \in Endpoints : inflight[e] = 1
    /\ captures # {}

\* C9: captures more than one second apart have different filenames and
\* captures of the same second the same one; a successful write leaves in its
\* file exactly the record just serialized and changes no other file.
C9_FilenamePerSecond ==
    /\ [](\A c1, c2 \in captures :
            /\ c2 - c1 > TicksPerSecond
                 => Filename(SYMBOL, c1) # Filename(SYMBOL, c2)
            /\ (c1 \div TicksPerSecond = c2 \div TicksPerSecond)
                 => Filename(SYMBOL, c1) = Filename(SYMBOL, c2))
    /\ [][ last_persisted' # last_persisted
            => LET name == <<OUTPUT_DIR, "orderbook", SYMBOL,
                             last_persisted'.capture \div TicksPerSecond>>
               IN /\ DOMAIN files' = DOMAIN files \cup {name}
                  /\ files'[name] = json_data
                  /\ Complete(files'[name])
                  /\ \A f \in DOMAIN files : f # name => files'[f] = files[f]
         ]_vars

\* two records captured more than a second apart, each whole in its own file
C9_Witness ==
    \E c1, c2 \in captures :
        /\ c2 - c1 > TicksPerSecond
        /\ Filename(SYMBOL, c1) \in DOMAIN files
        /\ Filename(SYMBOL, c2) \in DOMAIN files
        /\ Complete(files[Filename(SYMBOL, c1)])
        /\ Complete(files[Filename(SYMBOL, c2)])
        /\ files[Filename(SYMBOL, c1)] # files[Filename(SYMBOL, c2)]

\* C10: the record written holds the lastUpdateId, bids and asks of the
\* iteration's order book, in their order, and the iteration's price sample;
\* a result is the answer to a request of the iteration itself, and none is
\* left when the next requests are issued; the iteration writes one file, once.
C10_RecordFromThisIteration ==
    [][ /\ last_persisted' # last_persisted
            => LET name == <<OUTPUT_DIR, "orderbook", SYMBOL,
                             last_persisted'.capture \div TicksPerSecond>>
                   c == files'[name]
               IN /\ Len(c) = Len(RecordKeys)
                  /\ c[1] = <<"lastUpdateId", orderbook_result.val.lastUpdateId>>
                  /\ c[2] = <<"bids", orderbook_result.val.bids>>
                  /\ c[3] = <<"asks", orderbook_result.val.asks>>
                  /\ c[4] = <<"current_price", price_result.val>>
                  /\ orderbook_result.st = "ok" /\ price_result.st = "ok"
                  /\ \A f \in DOMAIN files : f # name => files'[f] = files[f]
                  /\ stdout = <<>> /\ Len(stdout') = 1
        /\ (orderbook_result' # orderbook_result /\ orderbook_result'.st # "pending")
            => (pc = "join" /\ orderbook_result.st = "pending"
                  /\ inflight["depth"] = 1 /\ inflight'["depth"] = 0)
        /\ (price_result' # price_result /\ price_result'.st # "pending")
            => (pc = "join" /\ price_result.st = "pending"
                  /\ inflight["price"] = 1 /\ inflight'["price"] = 0)
        /\ (pc = "stamp" /\ pc' # pc)
            => (orderbook_result' = PendingBook /\ price_result' = PendingPrice)
        /\ stdout # <<>> => files' = files
      ]_vars

\* a second iteration has persisted its own order book, another than the first's
C10_Witness ==
    /\ pc = "pace"
    /\ Len(stdout) = 1
    /\ stdout[1][1] = "Snapshot saved"
    /\ Cardinality(captures) = 2
    /\ \E f, g \in DOMAIN files :
          /\ Complete(files[f]) /\ Complete(files[g])
          /\ files[f][1][2] # files[g][1][2]

\* the state is the end of an iteration: its pacing step has slept or has
\* printed the slow-iteration line
SlowLines == {l \in Range(stdout) : l[1] = "Processing took longer than interval"}

IterationOver == pc = "iter_start" /\ (sleep_duration > 0 \/ SlowLines # {})

\* C11: the pacing step sleeps UPDATE_INTERVAL - elapsed and prints nothing
\* when elapsed < UPDATE_INTERVAL, and otherwise prints the slow-iteration
\* line with the elapsed time and does not sleep; the sleep does not end
\* before its deadline; so an iteration that is over began at least
\* UPDATE_INTERVAL ago.
C11_PacingStep ==
    /\ [][ /\ (pc = "pace" /\ pc' # pc)
               => LET elapsed == now - iteration_start
                  IN IF elapsed < UPDATE_INTERVAL
                     THEN /\ pc' = "pace_sleep"
                          /\ sleep_duration' = UPDATE_INTERVAL - elapsed
                          /\ wake_at' = now + sleep_duration'
                          /\ stdout' = stdout
                     ELSE /\ pc' = "iter_start"
                          /\ stdout' = Append(stdout,
                                 <<"Processing took longer than interval", elapsed>>)
                          /\ wake_at' = 0
           /\ (pc = "pace_sleep" /\ pc' # pc)
               => (pc' = "iter_start" /\ now >= wake_at /\ stdout' = stdout)
           /\ pc' = "pace" => SlowLines = {}
         ]_vars
    /\ [](/\ IterationOver => now - iteration_start >= UPDATE_INTERVAL
          /\ pc = "pace_sleep" => SlowLines = {})

\* an iteration whose fetch failed after one tick sleeps the remaining tick
C11_Witness ==
    /\ pc = "pace_sleep"
    /\ sleep_duration = 1
    /\ wake_at = iteration_start + UPDATE_INTERVAL
    /\ stderr # <<>>

\* the steps of an iteration, in the order of lines 145-186
StepOrder ==
    <<"iter_start", "throttle_check", "throttle_sleep", "stamp", "join",
      "save_enter", "save_build", "write_open", "write_all", "pace", "pace_sleep">>

Position(p) == CHOOSE i \in DOMAIN StepOrder : StepOrder[i] = p

\* C12: main moves forward through wait, stamp, join, save_snapshot and
\* pacing, and back only from pacing to the start of the next iteration, so
\* each step happens at most once per iteration; the stamp assigns the
\* current instant to last_snapshot_time in every iteration, whatever its
\* outcome; save_snapshot starts from the join alone, with both legs
\* completed; pacing follows the join or save_snapshot.
C12_StepOrder ==
    /\ [][ /\ pc' # pc
               => \/ Position(pc') > Position(pc)
                  \/ (pc \in {"pace", "pace_sleep"} /\ pc' = "iter_start")
           /\ (pc' = "join" /\ pc # "join")
               => (pc = "stamp" /\ last_snapshot_time' = now
                     /\ \A e \in Endpoints : inflight'[e] > inflight[e])
           /\ (pc # "stamp" \/ pc' = pc)
               => (last_snapshot_time' = last_snapshot_time
                     /\ \A e \in Endpoints : inflight'[e] <= inflight[e])
           /\ (pc' = "save_enter" /\ pc # "save_enter")
               => (pc = "join" /\ orderbook_result.st # "pending"
                     /\ price_result.st # "pending")
           /\ (pc' = "pace" /\ pc # "pace") => pc \in {"join"} \cup SavePcs
         ]_vars
    /\ [](pc \in {"join", "pace", "pace_sleep"} \cup SavePcs
            => (last_snapshot_time >= iteration_start
                  /\ last_snapshot_time >= MIN_INTERVAL_BETWEEN_SNAPSHOTS))

\* an iteration whose fetch failed has stamped its own last_snapshot_time,
\* later than the one before it, and is pacing
C12_Witness ==
    /\ pc = "pace_sleep"
    /\ stderr # <<>>
    /\ prev_failed
    /\ last_snapshot_time >= iteration_start
    /\ last_snapshot_time >= 2 * MIN_INTERVAL_BETWEEN_SNAPSHOTS

\* the status lines of the current iteration: line 170 on stdout, lines
\* 172, 175 and 176 on stderr
SavedLines == {i \in DOMAIN stdout : stdout[i][1] = "Snapshot saved"}

StatusLineCount == Cardinality(SavedLines) + Len(stderr)

FailureReasons == FetchFailureLines \cup {"Error saving snapshot"}

\* C13: an iteration has no status line until its match and exactly one
\* from then on: the success line, carrying the path of a file this
\* iteration wrote in full and the time since the iteration began, or one of
\* the three failure reasons, each printed only for its own cause; the
\* success line is printed in the step that writes the file, never otherwise.
C13_OneStatusLine ==
    /\ [](/\ pc \in {"throttle_check", "throttle_sleep", "stamp", "join"} \cup SavePcs
              => StatusLineCount = 0
          /\ (pc \in {"pace", "pace_sleep"} \/ IterationOver)
              => StatusLineCount = 1
          /\ \A i \in DOMAIN stderr : stderr[i][1] \in FailureReasons
          /\ \A i \in SavedLines :
                /\ stdout[i][2] \in DOMAIN files
                /\ Complete(files[stdout[i][2]])
                /\ stdout[i][3] \in 0 .. (now - iteration_start))
    /\ [][ /\ (stdout' # stdout /\ pc # "pace" /\ pc # "iter_start")
               => /\ pc = "write_all"
                  /\ stdout' = <<<<"Snapshot saved", Filename(SYMBOL, save_now),
                                   now - iteration_start>>>>
                  /\ files'[Filename(SYMBOL, save_now)] = json_data
                  /\ stderr' = <<>>
           /\ (stderr' # stderr /\ stderr' # <<>>)
               => /\ Len(stderr') = 1
                  /\ stdout' = stdout
                  /\ files' = files \/ pc = "write_all"
                  /\ stderr'[1][1] = "Failed to get orderbook snapshot"
                       => (pc = "join" /\ orderbook_result.st = "err"
                             /\ stderr'[1][2] = orderbook_result.err)
                  /\ stderr'[1][1] = "Failed to get price data"
                       => (pc = "join" /\ orderbook_result.st = "ok"
                             /\ price_result.st = "err"
                             /\ stderr'[1][2] = price_result.err)
                  /\ stderr'[1][1] = "Error saving snapshot" => pc \in SavePcs
           /\ (pc = "write_all" /\ pc' # pc /\ files'[Filename(SYMBOL, save_now)] # json_data)
               => (stdout' = stdout /\ stderr' # stderr)
         ]_vars

\* save_snapshot failed while writing: the iteration's one line is that failure
C13_Witness ==
    /\ pc = "pace"
    /\ stdout = <<>>
    /\ stderr = <<<<"Error saving snapshot", "write">>>>
    /\ \E f \in DOMAIN files : ~Complete(files[f])

\* a leg of the join has not returned
LegPending == orderbook_result.st = "pending" \/ price_result.st = "pending"

\* C15: while the response of either leg is outstanding main stays at the
\* join, however long that lasts and whatever the other leg returned: no
\* step writes a file, prints a line or starts another iteration, and the
\* only steps are the passing of time and the other leg's response.
C15_BlockedAtJoin ==
    [][ (pc = "join" /\ LegPending)
          => /\ pc' = "join"
             /\ files' = files
             /\ dir_exists' = dir_exists
             /\ stdout' = stdout
             /\ stderr' = stderr
             /\ captures' = captures
             /\ iteration_start' = iteration_start
             /\ last_snapshot_time' = last_snapshot_time
             /\ \A e \in Endpoints : inflight'[e] <= inflight[e]
      ]_vars

\* the order book arrived, the price has been outstanding for the whole
\* horizon, and main is still at the join of its first iteration
C15_Witness ==
    /\ pc = "join"
    /\ orderbook_result.st = "ok"
    /\ price_result.st = "pending"
    /\ inflight["price"] = 1
    /\ now = MaxTime
    /\ now - last_snapshot_time >= 2 * UPDATE_INTERVAL - 1
    /\ captures = {}
    /\ files = <<>>

\* the fields of a whole record on disk
Field(content, key) ==
    LET i == CHOOSE j \in DOMAIN RecordKeys : RecordKeys[j] = key
    IN content[i][2]

\* C16: in every whole record on disk local_timestamp is the second that
\* local_datetime and the file's name denote, here even when the system
\* clock is never set and only runs.
C16_LocalTimesAgree ==
    jumps = 0
      => \A f \in DOMAIN files :
            Complete(files[f])
              => /\ Field(files[f], "local_timestamp") = Field(files[f], "local_datetime")
                 /\ Field(files[f], "local_timestamp") = f[4]

\* The process started at now = 0 (line 142).  main is in its first
\* iteration: it has begun one, the iteration before it neither failed nor
\* wrote a record, i.e. there was none.
FirstIteration ==
    /\ pc # "iter_start" \/ IterationOver
    /\ ~prev_failed
    /\ IF SavedLines = {} THEN last_persisted = NoPersist
                          ELSE last_persisted.capture_gap = -1

PastStamp == pc \in {"join", "pace", "pace_sleep"} \cup SavePcs \/ IterationOver

\* no request before MIN_INTERVAL_BETWEEN_SNAPSHOTS has passed since startup
StartupSpacing ==
    /\ now < MIN_INTERVAL_BETWEEN_SNAPSHOTS
         => /\ pc \in {"iter_start", "throttle_check", "throttle_sleep"}
            /\ \A e \in Endpoints : inflight[e] = 0
    /\ (FirstIteration /\ PastStamp)
         => last_snapshot_time >= MIN_INTERVAL_BETWEEN_SNAPSHOTS

\* C17 as stated: no request before M has passed since startup, and the
\* first iteration never sleeps at its end and always prints the
\* slow-iteration line.
C17_FirstIterationNeverSleeps ==
    /\ StartupSpacing
    /\ FirstIteration => pc # "pace_sleep"
    /\ (FirstIteration /\ IterationOver) => SlowLines # {}

\* C17: no request is issued before M has passed since startup; the first
\* iteration reaches its pacing step no earlier than M after startup, so
\* its elapsed time falls short of T = M by at most the time that passed
\* between line 142 and line 145: it sleeps at its end for at most that
\* long, and when line 145 ran at the instant of line 142 it does not sleep
\* and prints the slow-iteration line.
C17_FirstIterationPacing ==
    /\ StartupSpacing
    /\ (FirstIteration /\ pc \in {"pace", "pace_sleep"})
         => now - iteration_start >= MIN_INTERVAL_BETWEEN_SNAPSHOTS - iteration_start
    /\ (FirstIteration /\ pc = "pace_sleep")
         => /\ sleep_duration <= iteration_start
            /\ SlowLines = {}
    /\ (FirstIteration /\ iteration_start = 0)
         => /\ pc # "pace_sleep"
            /\ IterationOver => SlowLines # {}

\* the first iteration began one tick after startup, its fetch failed at
\* once, and it sleeps at its end
C17_Witness ==
    /\ FirstIteration
    /\ pc = "pace_sleep"
    /\ iteration_start = 1
    /\ now - iteration_start = 1
    /\ sleep_duration = 1
    /\ stderr # <<>>

\* the record this iteration wrote, once its success line is printed
WrittenRecords == {files[stdout[i][2]] : i \in SavedLines}

\* milliseconds since the epoch at which second s ends
EndOfSecond(s) == (s + 1) * TicksPerSecond * MillisPerTick

InIteration(record) ==
    LET timestamp == Field(record, "current_price").timestamp
    IN /\ timestamp >= MillisOf(issued_at)
       /\ timestamp < EndOfSecond(Field(record, "local_timestamp"))

\* C18: the system clock here only moves forward.  A successful price leg's
\* timestamp is the system clock in milliseconds at the step in which the
\* response completes; the record save_snapshot builds carries that value
\* unchanged, and in the record built and in the record written it is not
\* before the system clock at which this iteration issued its requests and
\* is before the end of the second in local_timestamp.
C18_PriceTimestampInIteration ==
    /\ [][ /\ wall' >= wall
           /\ (price_result.st = "pending" /\ price_result'.st = "ok")
               => /\ price_result'.val.timestamp = MillisOf(wall)
                  /\ pc = "join"
                  /\ MillisOf(wall) >= MillisOf(issued_at)
         ]_vars
    /\ [](/\ pc \in {"write_open", "write_all"}
              => /\ InIteration(json_data)
                 /\ Field(json_data, "current_price") = price_result.val
          /\ \A record \in WrittenRecords : InIteration(record))

\* a record is written whose price was sampled a tick after the requests
\* were issued and in the second before the one in its local_timestamp
C18_Witness ==
    /\ pc = "pace"
    /\ \E record \in WrittenRecords :
          LET timestamp == Field(record, "current_price").timestamp
          IN /\ timestamp = MillisOf(issued_at + 1)
             /\ timestamp < EndOfSecond(Field(record, "local_timestamp") - 1)
             /\ timestamp >= EndOfSecond(Field(record, "local_timestamp") - 2)

\* C14: under fair scheduling, with every request answered, an iteration
\* that has issued its requests reaches its pacing step; from there the
\* loop comes round to the start of the next iteration, which issues both
\* requests; main never leaves the loop.  Time in the model ends at MaxTime,
\* so the two steps that may sleep are required of the iterations that have
\* their longest sleep, UPDATE_INTERVAL or MIN_INTERVAL_BETWEEN_SNAPSHOTS,
\* before that.
C14_Progress ==
    /\ (pc = "join") ~> (pc = "pace")
    /\ (pc = "pace" /\ now + UPDATE_INTERVAL <= MaxTime) ~> (pc = "iter_start")
    /\ (pc = "iter_start" /\ now + MIN_INTERVAL_BETWEEN_SNAPSHOTS <= MaxTime)
          ~> (pc = "join" /\ \A e \in Endpoints : inflight[e] = 1)
    /\ [](pc \in LoopPcs)

\* a second iteration has issued its requests after the first one failed
C14_Witness ==
    /\ pc = "join"
    /\ prev_failed
    /\ \A e \in Endpoints : inflight[e] = 1
    /\ iteration_start >= MIN_INTERVAL_BETWEEN_SNAPSHOTS

====
